---- MODULE Spec2Model ----
(***************************************************************************)
(* iPXE scripts (src/image/script.c): the script recogniser script_load,   *)
(* the line walker process_script, the sequential executor script_exec and *)
(* the "goto" command goto_exec, with the global execution cursor          *)
(* (script, script_offset) they share.                                     *)
(*                                                                         *)
(* A script is a sequence of bytes; a byte is a one-character string.      *)
(* Offsets are 0-based as in the C code: the byte at offset o of data is   *)
(* data[o + 1].                                                            *)
(***************************************************************************)
EXTENDS Integers, Sequences, FiniteSets, TLC

VARIABLES
    image_data,     \* image->data, image->len: the bytes of each image
    image_type,     \* image->type: "none" or "script"
    registered,     \* the images currently in the image registry
    script,         \* static struct image *script (NULL when none)
    script_offset,  \* static size_t script_offset
    stack,          \* the C call stack: one frame per script_exec() in progress
    event           \* history: what the last step did (read only by properties)

vars == <<image_data, image_type, registered, script, script_offset, stack, event>>

(***************************************************************************)
(* Bounds of the model.                                                    *)
(***************************************************************************)
MaxLines == 3   \* most body lines (after the "#!ipxe" line) of image A
MaxDepth == 2   \* most script_exec() invocations nested at a time

(***************************************************************************)
(* Program constants.                                                      *)
(***************************************************************************)
ENOENT == 2
ENOEXEC == 8
EINVAL == 22
ENOTTY == 25

NULL == "NULL"
NL == "\n"
Images == {"A", "B"}

Min(S) == CHOOSE x \in S : \A y \in S : x <= y

ipxe_magic == <<"#", "!", "i", "p", "x", "e">>
gpxe_magic == <<"#", "!", "g", "p", "x", "e">>
goto_name == <<"g", "o", "t", "o">>
echo_name == <<"e", "c", "h", "o">>
dhcp_name == <<"d", "h", "c", "p">>
imgexec_name == <<"i", "m", "g", "e", "x", "e", "c">>

(***************************************************************************)
(* Library and user-memory primitives used by script.c.                    *)
(***************************************************************************)
isspace(c) == c \in {" ", "\t", "\n", "\f", "\r"}

\* memcmp ( a, b, n ): 0 iff the first n bytes agree
memcmp(a, b, n) == IF \A i \in 1..n : a[i] = b[i] THEN 0 ELSE 1

\* strcmp ( a, b ) on NUL-free strings: 0 iff equal
strcmp(a, b) == IF a = b THEN 0 ELSE 1

\* copy_from_user ( dest, data, off, len ): the len bytes at offset off
copy_from_user(data, off, len) == SubSeq(data, off + 1, off + len)

\* memchr_user ( data, off, c, len ): offset of the first c in
\* [off, off+len), or -1
memchr_user(data, off, c, len) ==
    LET hits == {i \in off..(off + len - 1) : data[i + 1] = c}
    IN  IF hits = {} THEN -1 ELSE Min(hits)

(***************************************************************************)
(* script_load: the magic signature check.                                 *)
(***************************************************************************)
sizeof_test == Len(ipxe_magic) + 1

\* mutant: the length check forgets the separator byte
script_load_short(data) ==
    IF Len(data) < sizeof_test - 1
    THEN -ENOEXEC
    ELSE LET test == copy_from_user(data, 0, Len(data))
         IN  IF ~ ( ( memcmp(test, ipxe_magic, sizeof_test - 1) = 0
                      \/ memcmp(test, gpxe_magic, sizeof_test - 1) = 0 )
                    /\ ( Len(test) < sizeof_test \/ isspace(test[sizeof_test]) ) )
             THEN -ENOEXEC
             ELSE 0

script_load(data) ==
    IF Len(data) < sizeof_test
    THEN -ENOEXEC
    ELSE LET test == copy_from_user(data, 0, sizeof_test)
         IN  IF ~ ( ( memcmp(test, ipxe_magic, sizeof_test - 1) = 0
                      \/ memcmp(test, gpxe_magic, sizeof_test - 1) = 0 )
                    /\ isspace(test[sizeof_test]) )
             THEN -ENOEXEC
             ELSE 0

(***************************************************************************)
(* process_script: the line walker.                                        *)
(***************************************************************************)
\* mutant: only negative statuses count as failures
terminate_on_failure_negative(rc) == rc < 0

terminate_on_failure(rc) == rc # 0

terminate_on_success(rc) == rc = 0

\* One pass of the loop body up to "Move to next line": the line at offset
\* off, and the offset after it.
\* mutant: the offset is not moved past the '\n'
process_script_next_nl(data, off) ==
    LET eol0 == memchr_user(data, off, NL, Len(data) - off)
        eol  == IF eol0 < 0 THEN Len(data) ELSE eol0
        len  == eol - off
    IN  [cmdbuf |-> copy_from_user(data, off, len), offset |-> off + len]

\* mutant: the offset stops at the end of the script
process_script_next_clamp(data, off) ==
    LET eol0 == memchr_user(data, off, NL, Len(data) - off)
        eol  == IF eol0 < 0 THEN Len(data) ELSE eol0
        len  == eol - off
    IN  [cmdbuf |-> copy_from_user(data, off, len),
         offset |-> IF off + len + 1 > Len(data) THEN Len(data) ELSE off + len + 1]

process_script_next(data, off) ==
    LET eol0 == memchr_user(data, off, NL, Len(data) - off)
        eol  == IF eol0 < 0 THEN Len(data) ELSE eol0
        len  == eol - off
    IN  [cmdbuf |-> copy_from_user(data, off, len), offset |-> off + len + 1]

\* goto_find_label with goto_label = label
goto_find_label(label, line) ==
    IF line = <<>> \/ line[1] # ":"
    THEN -ENOENT
    ELSE IF strcmp(label, Tail(line)) # 0
         THEN -ENOENT
         ELSE 0

\* mutant: a while loop instead of do-while; an empty range is not visited
process_script_goto_while(data, off, label) ==
    LET walk[o \in 0..(Len(data) + 1)] ==
            IF o >= Len(data)
            THEN [rc |-> -ENOENT, offset |-> o, visits |-> 0]
            ELSE LET n  == process_script_next(data, o)
                     rc == goto_find_label(label, n.cmdbuf)
                 IN  IF terminate_on_success(rc)
                     THEN [rc |-> rc, offset |-> n.offset, visits |-> 1]
                     ELSE [walk[n.offset] EXCEPT !.visits = @ + 1]
    IN  walk[off]

\* mutant: the search does not stop at the first match; the last match wins
process_script_goto_last(data, off, label) ==
    LET walk[o \in 0..Len(data)] ==
            LET n    == process_script_next(data, o)
                rc   == goto_find_label(label, n.cmdbuf)
                rest == IF n.offset < Len(data)
                        THEN walk[n.offset]
                        ELSE [rc |-> -ENOENT, offset |-> n.offset, visits |-> 0]
            IN  IF terminate_on_success(rest.rc)
                THEN [rest EXCEPT !.visits = @ + 1]
                ELSE [rc |-> rc, offset |-> IF rc = 0 THEN n.offset ELSE rest.offset,
                      visits |-> rest.visits + 1]
    IN  walk[off]

\* process_script ( goto_find_label, terminate_on_success ), entered with
\* script_offset = off (0 from goto_exec): the status, the final offset, and
\* how many times goto_find_label was called
process_script_goto(data, off, label) ==
    LET walk[o \in 0..Len(data)] ==
            LET n  == process_script_next(data, o)
                rc == goto_find_label(label, n.cmdbuf)
            IN  IF terminate_on_success(rc)
                THEN [rc |-> rc, offset |-> n.offset, visits |-> 1]
                ELSE IF n.offset < Len(data)
                     THEN [walk[n.offset] EXCEPT !.visits = @ + 1]
                     ELSE [rc |-> rc, offset |-> n.offset, visits |-> 1]
    IN  walk[off]

(***************************************************************************)
(* goto_exec.                                                              *)
(***************************************************************************)
\* parse_options ( argc, argv, &goto_cmd, &opts ): exactly one argument
parse_options(argv) == IF Len(argv) = 2 THEN 0 ELSE -EINVAL

\* mutant: the offset is not restored when the label is not found
goto_exec_norestore(argv, scr, off) ==
    IF parse_options(argv) # 0
    THEN [rc |-> parse_options(argv), offset |-> off, searched |-> FALSE]
    ELSE IF scr = NULL
    THEN [rc |-> -ENOTTY, offset |-> off, searched |-> FALSE]
    ELSE LET r == process_script_goto(image_data[scr], 0, argv[2])
         IN  [rc |-> r.rc, offset |-> r.offset, searched |-> TRUE]

\* mutant: no "Not in a script" check; with no script the search finds nothing
goto_exec_nocheck(argv, scr, off) ==
    IF parse_options(argv) # 0
    THEN [rc |-> parse_options(argv), offset |-> off, searched |-> FALSE]
    ELSE LET r == IF scr = NULL
                  THEN [rc |-> -ENOENT, offset |-> 0, visits |-> 0]
                  ELSE process_script_goto(image_data[scr], 0, argv[2])
         IN  IF r.rc # 0
             THEN [rc |-> r.rc, offset |-> off, searched |-> TRUE]
             ELSE [rc |-> 0, offset |-> r.offset, searched |-> TRUE]

\* mutant: the search starts at the current offset, not at the start
goto_exec_fromcur(argv, scr, off) ==
    IF parse_options(argv) # 0
    THEN [rc |-> parse_options(argv), offset |-> off, searched |-> FALSE]
    ELSE IF scr = NULL
    THEN [rc |-> -ENOTTY, offset |-> off, searched |-> FALSE]
    ELSE LET r == IF off < Len(image_data[scr])
                  THEN process_script_goto(image_data[scr], off, argv[2])
                  ELSE [rc |-> -ENOENT, offset |-> off, visits |-> 0]
         IN  IF r.rc # 0
             THEN [rc |-> r.rc, offset |-> off, searched |-> TRUE]
             ELSE [rc |-> 0, offset |-> r.offset, searched |-> TRUE]

\* mutant: the label search walks the outermost running script
goto_exec_outer(argv, scr, off) ==
    IF parse_options(argv) # 0
    THEN [rc |-> parse_options(argv), offset |-> off, searched |-> FALSE]
    ELSE IF scr = NULL
    THEN [rc |-> -ENOTTY, offset |-> off, searched |-> FALSE]
    ELSE LET r == process_script_goto(image_data[stack[1].image], 0, argv[2])
         IN  IF r.rc # 0
             THEN [rc |-> r.rc, offset |-> off, searched |-> TRUE]
             ELSE [rc |-> 0, offset |-> r.offset, searched |-> TRUE]

\* The status, the resulting script_offset, and whether the label search ran
goto_exec(argv, scr, off) ==
    IF parse_options(argv) # 0
    THEN [rc |-> parse_options(argv), offset |-> off, searched |-> FALSE]
    ELSE IF scr = NULL
    THEN [rc |-> -ENOTTY, offset |-> off, searched |-> FALSE]
    ELSE LET r == process_script_goto(image_data[scr], 0, argv[2])
         IN  IF r.rc # 0
             THEN [rc |-> r.rc, offset |-> off, searched |-> TRUE]
             ELSE [rc |-> 0, offset |-> r.offset, searched |-> TRUE]

(***************************************************************************)
(* The command dispatcher system(), outside script.c: a line is split      *)
(* into words; "goto" runs goto_exec, "imgexec <image>" runs the image's   *)
(* exec method (script_exec), "echo" succeeds, "dhcp" returns a status     *)
(* that depends on the world outside (zero or not), a comment or an empty  *)
(* line does nothing, and any other word is not a command.                 *)
(***************************************************************************)
\* The statuses a command that depends on the outside world may return
CommandStatuses == {0, 1, -ENOEXEC}

RECURSIVE split_args(_)
split_args(line) ==
    IF line = <<>>
    THEN <<>>
    ELSE IF Head(line) = " "
    THEN split_args(Tail(line))
    ELSE LET sp == {i \in 1..Len(line) : line[i] = " "}
             e  == IF sp = {} THEN Len(line) + 1 ELSE Min(sp)
         IN  <<SubSeq(line, 1, e - 1)>> \o split_args(SubSeq(line, e + 1, Len(line)))

\* What system ( line ) runs: kind "rc" returns one of rcs at once, "goto"
\* calls goto_exec ( argv ), "exec" calls script_exec ( image )
system(line) ==
    LET argv == split_args(line)
        none == [kind |-> "rc", rcs |-> {0}, argv |-> argv, image |-> NULL]
    IN  IF argv = <<>> \/ argv[1][1] = "#"
        THEN none
        ELSE IF argv[1] = goto_name
        THEN [none EXCEPT !.kind = "goto"]
        ELSE IF argv[1] = echo_name
        THEN none
        ELSE IF argv[1] = dhcp_name
        THEN [none EXCEPT !.rcs = CommandStatuses]
        ELSE IF argv[1] = imgexec_name /\ Len(argv) = 2
                /\ \E i \in Images : argv[2] = <<i>>
        THEN [none EXCEPT !.kind = "exec",
                          !.image = CHOOSE i \in Images : argv[2] = <<i>>]
        ELSE [none EXCEPT !.rcs = {-ENOEXEC}]

(***************************************************************************)
(* script_exec_line: "label" when the line is skipped, else "system".      *)
(***************************************************************************)
\* mutant: a bare ":" is not taken for a label
script_exec_line_nonempty(line) ==
    IF Len(line) > 1 /\ line[1] = ":" THEN "label" ELSE "system"

script_exec_line(line) ==
    IF line # <<>> /\ line[1] = ":" THEN "label" ELSE "system"

(***************************************************************************)
(* The scripts and blobs the model runs on.                                *)
(***************************************************************************)
RECURSIVE Join(_)
Join(lines) ==
    IF lines = <<>> THEN <<>>
    ELSE IF Len(lines) = 1 THEN lines[1]
    ELSE lines[1] \o <<NL>> \o Join(Tail(lines))

\* The body lines image A is built from
CommandLines ==
    { <<":", "a">>,                         \* label a
      <<":", "a", "b">>,                    \* label ab
      <<":">>,                              \* label with an empty name
      goto_name \o <<" ", "a">>,            \* goto a
      dhcp_name,                            \* a command that succeeds or fails
      imgexec_name \o <<" ", "A">>,         \* run image A
      imgexec_name \o <<" ", "B">>,         \* run image B
      <<>> }                                \* blank line

Bodies(n) == UNION {[1..k -> CommandLines] : k \in 0..n}

ScriptOf(magic, lines, trailing) ==
    magic \o <<NL>> \o Join(lines) \o (IF trailing THEN <<NL>> ELSE <<>>)

ScriptsA == {ScriptOf(ipxe_magic, b, t) : b \in Bodies(MaxLines), t \in BOOLEAN}

\* Image B: scripts a line of A (or the shell) can run
ScriptsB ==
    { ScriptOf(gpxe_magic, <<goto_name \o <<" ", "a">>>>, FALSE),
      ScriptOf(gpxe_magic, <<<<":", "a">>, <<"b", "a", "d">>>>, TRUE),
      ScriptOf(gpxe_magic, <<imgexec_name \o <<" ", "A">>>>, TRUE),
      ScriptOf(gpxe_magic, <<goto_name \o <<" ", "a">>, echo_name, <<":", "a">>>>, FALSE),
      ScriptOf(gpxe_magic, <<echo_name>>, TRUE) }

\* "#!ipxe\n:start\necho hi\ngoto start\n"
start_label == <<"s", "t", "a", "r", "t">>
echo_hi == echo_name \o <<" ", "h", "i">>
LoopScript ==
    ScriptOf(ipxe_magic, << <<":">> \o start_label, echo_hi,
                            goto_name \o <<" ">> \o start_label >>, TRUE)

\* What the shell may pass to goto outside any script
ShellArgvs == { <<goto_name, <<"a">>>>, <<goto_name>> }

\* Blobs offered to script_load: every prefix of a head, a separator, a tail
BlobHeads ==
    { ipxe_magic, gpxe_magic,
      <<"#", "!", "I", "P", "X", "E">>,
      <<"#", "!", "g", "p", "x", "E">>,
      <<"#", "!", "i", "p", "x", "f">>,
      <<"!", "#", "i", "p", "x", "e">>,
      <<"#", "!", "p", "x", "e", " ">> }
BlobSeps == {" ", "\t", "\n", "\f", "\r", "e", ":", "#"}
BlobTails == { <<>>, echo_name \o <<NL>> }
Blobs ==
    UNION { { SubSeq(h \o <<s>> \o t, 1, k) : k \in 0..(Len(h) + 1 + Len(t)) } :
            <<h, s, t>> \in BlobHeads \X BlobSeps \X BlobTails }

(***************************************************************************)
(* Frames and events.                                                      *)
(***************************************************************************)
\* A script_exec() frame.  image, saved_script, saved_offset, cmdbuf and rc
\* are the C locals; pc is the position in process_script.  The others are
\* history: line_start/prev_start the offsets at which the current and the
\* previously fetched line began, kind/label what the last visited line did,
\* first_fail the first non-success line status, entry_* the cursor on entry,
\* jumped whether a goto of this invocation has succeeded, and visits and
\* dispatches the lines visited and the lines handed to system() before the
\* first such goto.
NewFrame(img) ==
    [ image |-> img, saved_script |-> script, saved_offset |-> script_offset,
      pc |-> "fetch", cmdbuf |-> <<>>, rc |-> 0,
      line_start |-> -1, prev_start |-> -1, kind |-> "none", label |-> <<>>,
      first_fail |-> 0, entry_script |-> script, entry_offset |-> script_offset,
      jumped |-> FALSE, visits |-> 0, dispatches |-> 0 ]

NoEvent ==
    [ op |-> "init", image |-> NULL, line |-> <<>>, cmd |-> "none", argv |-> <<>>,
      rc |-> 0, searched |-> FALSE, dispatched |-> FALSE,
      pre_script |-> NULL, pre_offset |-> 0, pre_registered |-> {},
      entry_script |-> NULL, entry_offset |-> 0, first_fail |-> 0,
      pre_depth |-> 0, kind |-> "none", last_start |-> -1, jumped |-> FALSE,
      visits |-> 0, dispatches |-> 0, offset |-> 0 ]

Ev(op) ==
    [NoEvent EXCEPT !.op = op, !.pre_script = script, !.pre_offset = script_offset,
                    !.pre_registered = registered, !.pre_depth = Len(stack)]

\* the event of the script_exec invocation with frame f returning
ReturnEvent(f, nested) ==
    [Ev("return") EXCEPT !.image = f.image, !.rc = f.rc,
                         !.entry_script = f.entry_script,
                         !.entry_offset = f.entry_offset,
                         !.first_fail = f.first_fail,
                         !.dispatched = nested,
                         !.kind = f.kind, !.last_start = f.line_start,
                         !.jumped = f.jumped,
                         !.visits = f.visits, !.dispatches = f.dispatches]

Top == stack[Len(stack)]
SetTop(stk, f) == [stk EXCEPT ![Len(stk)] = f]

\* history update of a frame whose current line was visited with status rc
Visited(f, kind, label, rc) ==
    [f EXCEPT !.kind = kind, !.label = label,
              !.first_fail = IF f.first_fail = 0 THEN rc ELSE f.first_fail,
              !.jumped = f.jumped \/ kind = "goto_ok",
              !.visits = IF f.jumped THEN f.visits ELSE f.visits + 1,
              !.dispatches = IF f.jumped \/ kind = "label"
                             THEN f.dispatches ELSE f.dispatches + 1]

\* mutant: the loop condition does not look at the length
process_script_loop_nobound(f, rc, off, scr) ==
    IF terminate_on_failure(rc)
    THEN [f EXCEPT !.pc = "ret", !.rc = rc]
    ELSE [f EXCEPT !.pc = "fetch", !.rc = rc]

\* mutant: the loop goes on while the offset is at most the length
process_script_loop_le(f, rc, off, scr) ==
    IF terminate_on_failure(rc)
    THEN [f EXCEPT !.pc = "ret", !.rc = rc]
    ELSE IF off <= Len(image_data[scr])
    THEN [f EXCEPT !.pc = "fetch", !.rc = rc]
    ELSE [f EXCEPT !.pc = "ret", !.rc = rc]

\* process_script after process_line returned rc: terminate, loop or fall out
process_script_loop(f, rc, off, scr) ==
    IF terminate_on_failure(rc)
    THEN [f EXCEPT !.pc = "ret", !.rc = rc]
    ELSE IF off < Len(image_data[scr])
    THEN [f EXCEPT !.pc = "fetch", !.rc = rc]
    ELSE [f EXCEPT !.pc = "ret", !.rc = rc]

(***************************************************************************)
(* Initial states.                                                         *)
(***************************************************************************)
Init ==
    /\ image_data \in {[i \in Images |-> IF i = "A" THEN a ELSE b] :
                          a \in ScriptsA, b \in ScriptsB}
    /\ \A i \in Images : script_load(image_data[i]) = 0
    /\ image_type = [i \in Images |-> "script"]
    /\ registered = Images
    /\ script = NULL
    /\ script_offset = 0
    /\ stack = <<>>
    /\ event = NoEvent

\* image A is the looping script
InitLoop ==
    /\ image_data \in {[i \in Images |-> IF i = "A" THEN LoopScript ELSE b] :
                          b \in ScriptsB}
    /\ \A i \in Images : script_load(image_data[i]) = 0
    /\ image_type = [i \in Images |-> "script"]
    /\ registered = Images
    /\ script = NULL
    /\ script_offset = 0
    /\ stack = <<>>
    /\ event = NoEvent

InitLoad ==
    /\ image_data \in {[i \in Images |-> b] : b \in Blobs}
    /\ image_type = [i \in Images |-> "none"]
    /\ registered = Images
    /\ script = NULL
    /\ script_offset = 0
    /\ stack = <<>>
    /\ event = NoEvent

(***************************************************************************)
(* script_load applied to an image.                                        *)
(***************************************************************************)
ScriptLoad(img) ==
    /\ image_type[img] = "none"
    /\ LET rc == script_load(image_data[img])
       IN  /\ image_type' = IF rc = 0 THEN [image_type EXCEPT ![img] = "script"]
                                      ELSE image_type
           /\ event' = [Ev("load") EXCEPT !.image = img, !.rc = rc]
    /\ UNCHANGED <<image_data, registered, script, script_offset, stack>>

(***************************************************************************)
(* script_exec, entry: de-register, save the cursor, make the image the    *)
(* running script, and enter process_script (script_offset = 0).           *)
(***************************************************************************)
\* mutant: only the outermost script_exec makes its image the running script
ScriptExecEnterOuter(img, stk) ==
    /\ registered' = registered \ {img}
    /\ stack' = Append(stk, NewFrame(img))
    /\ script' = IF script = NULL THEN img ELSE script
    /\ script_offset' = 0
    /\ event' = [Ev("enter") EXCEPT !.image = img]
    /\ UNCHANGED <<image_data, image_type>>

ScriptExecEnter(img, stk) ==
    /\ registered' = registered \ {img}
    /\ stack' = Append(stk, NewFrame(img))
    /\ script' = img
    /\ script_offset' = 0
    /\ event' = [Ev("enter") EXCEPT !.image = img]
    /\ UNCHANGED <<image_data, image_type>>

\* The shell runs a registered script image
ImageExec(img) ==
    /\ stack = <<>>
    /\ image_type[img] = "script"
    /\ img \in registered
    /\ ScriptExecEnter(img, stack)

(***************************************************************************)
(* process_script ( script_exec_line, terminate_on_failure ): extract the  *)
(* next line and move script_offset past it.                               *)
(***************************************************************************)
ProcessScriptFetch ==
    /\ stack # <<>>
    /\ Top.pc = "fetch"
    /\ LET n == process_script_next(image_data[script], script_offset)
       IN  /\ script_offset' = n.offset
           /\ stack' = SetTop(stack, [Top EXCEPT !.pc = "visit", !.cmdbuf = n.cmdbuf,
                                                 !.prev_start = Top.line_start,
                                                 !.line_start = script_offset])
           /\ event' = [Ev("fetch") EXCEPT !.line = n.cmdbuf]
    /\ UNCHANGED <<image_data, image_type, registered, script>>

(***************************************************************************)
(* script_exec_line on the extracted line, then the rest of the loop pass. *)
(***************************************************************************)
\* a label line: skipped
ExecLineLabel ==
    /\ stack # <<>>
    /\ Top.pc = "visit"
    /\ script_exec_line(Top.cmdbuf) = "label"
    /\ stack' = SetTop(stack, process_script_loop(Visited(Top, "label", <<>>, 0),
                                                  0, script_offset, script))
    /\ event' = [Ev("visit") EXCEPT !.line = Top.cmdbuf, !.cmd = "label"]
    /\ UNCHANGED <<image_data, image_type, registered, script, script_offset>>

\* a command that returns at once
ExecLineCommand ==
    /\ stack # <<>>
    /\ Top.pc = "visit"
    /\ script_exec_line(Top.cmdbuf) = "system"
    /\ LET c == system(Top.cmdbuf)
       IN  /\ c.kind = "rc"
           /\ \E rc \in c.rcs :
                 /\ stack' = SetTop(stack,
                        process_script_loop(Visited(Top, "rc", <<>>, rc),
                                            rc, script_offset, script))
                 /\ event' = [Ev("visit") EXCEPT !.line = Top.cmdbuf, !.cmd = "rc",
                                                 !.argv = c.argv, !.rc = rc,
                                                 !.dispatched = TRUE]
    /\ UNCHANGED <<image_data, image_type, registered, script, script_offset>>

\* the goto command
ExecLineGoto ==
    /\ stack # <<>>
    /\ Top.pc = "visit"
    /\ script_exec_line(Top.cmdbuf) = "system"
    /\ LET c == system(Top.cmdbuf)
           g == goto_exec(c.argv, script, script_offset)
       IN  /\ c.kind = "goto"
           /\ script_offset' = g.offset
           /\ stack' = SetTop(stack,
                  process_script_loop(
                      Visited(Top, IF g.rc = 0 THEN "goto_ok" ELSE "goto_fail",
                              IF Len(c.argv) = 2 THEN c.argv[2] ELSE <<>>, g.rc),
                      g.rc, g.offset, script))
           /\ event' = [Ev("visit") EXCEPT !.line = Top.cmdbuf, !.cmd = "goto",
                                           !.argv = c.argv, !.rc = g.rc,
                                           !.searched = g.searched,
                                           !.dispatched = TRUE]
    /\ UNCHANGED <<image_data, image_type, registered, script>>

\* a command that runs an image: script_exec is entered again
ExecLineImgexec ==
    /\ stack # <<>>
    /\ Top.pc = "visit"
    /\ script_exec_line(Top.cmdbuf) = "system"
    /\ Len(stack) < MaxDepth
    /\ LET c == system(Top.cmdbuf)
       IN  /\ c.kind = "exec"
           /\ image_type[c.image] = "script"
           /\ ScriptExecEnter(c.image, SetTop(stack, [Top EXCEPT !.pc = "call"]))

(***************************************************************************)
(* script_exec, exit: restore the cursor, re-register, return rc; the      *)
(* caller (a line of an outer script, or the shell) goes on with rc.       *)
(***************************************************************************)
\* mutant: a failed script returns at once, restoring nothing
ScriptExecReturnKeep ==
    /\ stack # <<>>
    /\ Top.pc = "ret"
    /\ LET f == Top
           rest == SubSeq(stack, 1, Len(stack) - 1)
           off == IF f.rc # 0 THEN script_offset ELSE f.saved_offset
           scr == IF f.rc # 0 THEN script ELSE f.saved_script
       IN  /\ script_offset' = off
           /\ script' = scr
           /\ registered' = IF f.rc # 0 THEN registered ELSE registered \cup {f.image}
           /\ stack' = IF rest = <<>>
                       THEN rest
                       ELSE SetTop(rest,
                                process_script_loop(
                                    Visited(rest[Len(rest)], "exec", <<>>, f.rc),
                                    f.rc, off, rest[Len(rest)].image))
           /\ event' = ReturnEvent(f, rest # <<>>)
    /\ UNCHANGED <<image_data, image_type>>

\* mutant: script_offset is not restored
ScriptExecReturnNoOffset ==
    /\ stack # <<>>
    /\ Top.pc = "ret"
    /\ LET f == Top
           rest == SubSeq(stack, 1, Len(stack) - 1)
       IN  /\ script' = f.saved_script
           /\ registered' = registered \cup {f.image}
           /\ stack' = IF rest = <<>>
                       THEN rest
                       ELSE SetTop(rest,
                                process_script_loop(
                                    Visited(rest[Len(rest)], "exec", <<>>, f.rc),
                                    f.rc, script_offset, f.saved_script))
           /\ event' = ReturnEvent(f, rest # <<>>)
    /\ UNCHANGED <<image_data, image_type, script_offset>>

ScriptExecReturn ==
    /\ stack # <<>>
    /\ Top.pc = "ret"
    /\ LET f == Top
           rest == SubSeq(stack, 1, Len(stack) - 1)
       IN  /\ script_offset' = f.saved_offset
           /\ script' = f.saved_script
           /\ registered' = registered \cup {f.image}
           /\ stack' = IF rest = <<>>
                       THEN rest
                       ELSE SetTop(rest,
                                process_script_loop(
                                    Visited(rest[Len(rest)], "exec", <<>>, f.rc),
                                    f.rc, f.saved_offset, f.saved_script))
           /\ event' = ReturnEvent(f, rest # <<>>)
    /\ UNCHANGED <<image_data, image_type>>

(***************************************************************************)
(* goto typed at the shell, outside any script.                            *)
(***************************************************************************)
ShellGoto(argv) ==
    /\ stack = <<>>
    /\ LET g == goto_exec(argv, script, script_offset)
       IN  /\ script_offset' = g.offset
           /\ event' = [Ev("shell") EXCEPT !.cmd = "goto", !.argv = argv, !.rc = g.rc,
                                           !.searched = g.searched,
                                           !.dispatched = TRUE]
    /\ UNCHANGED <<image_data, image_type, registered, script, stack>>

Next ==
    \/ \E img \in Images : ImageExec(img)
    \/ ProcessScriptFetch
    \/ ExecLineLabel
    \/ ExecLineCommand
    \/ ExecLineGoto
    \/ ExecLineImgexec
    \/ ScriptExecReturn
    \/ \E argv \in ShellArgvs : ShellGoto(argv)

Spec == Init /\ [][Next]_vars

\* A step of a script in progress: the code is sequential and each line's
\* command returns, so a script in progress always takes its next step.
InScriptStep ==
    \/ ProcessScriptFetch
    \/ ExecLineLabel
    \/ ExecLineCommand
    \/ ExecLineGoto
    \/ ExecLineImgexec
    \/ ScriptExecReturn

SpecLoop == InitLoop /\ [][Next]_vars /\ WF_vars(InScriptStep)

(***************************************************************************)
(* process_script as a function of the byte range it walks: the images     *)
(* hold any bytes at all, the empty range included, and are walked by      *)
(* script_exec and by the label search of goto_exec.                       *)
(***************************************************************************)
MaxWalkLen == 3

WalkBytes == {":", "a", NL}
WalkData == UNION {[1..k -> WalkBytes] : k \in 0..MaxWalkLen}
WalkLabels == {<<"a">>, <<"a", "a">>}

InitWalk ==
    /\ image_data \in [Images -> WalkData]
    /\ image_type = [i \in Images |-> "script"]
    /\ registered = Images
    /\ script = NULL
    /\ script_offset = 0
    /\ stack = <<>>
    /\ event = NoEvent

\* process_script ( goto_find_label, terminate_on_success ) with script = img
\* and goto_label = label: its status, where it leaves the offset, and the
\* number of calls of goto_find_label
LabelSearch(img, label) ==
    /\ stack = <<>>
    /\ LET r == process_script_goto(image_data[img], 0, label)
       IN  event' = [Ev("search") EXCEPT !.image = img, !.argv = <<goto_name, label>>,
                                         !.rc = r.rc, !.offset = r.offset,
                                         !.visits = r.visits, !.searched = TRUE]
    /\ UNCHANGED <<image_data, image_type, registered, script, script_offset, stack>>

\* the steps of a walk by script_exec
WalkStep ==
    \/ ProcessScriptFetch
    \/ ExecLineLabel
    \/ ExecLineCommand
    \/ ScriptExecReturn

NextWalk ==
    \/ \E img \in Images : ImageExec(img)
    \/ \E img \in Images, label \in WalkLabels : LabelSearch(img, label)
    \/ WalkStep

SpecWalk == InitWalk /\ [][NextWalk]_vars /\ WF_vars(WalkStep)

NextLoad == \E img \in Images : ScriptLoad(img)

SpecLoad == InitLoad /\ [][NextLoad]_vars

(***************************************************************************)
(* Vocabulary of the properties: the lines of a script, read off the bytes *)
(* without the walker.                                                     *)
(***************************************************************************)
\* the offsets at which a line of data starts
LineStarts(data) == {0} \cup {o \in 1..(Len(data) - 1) : data[o] = NL}

\* the offset of the '\n' ending the line that starts at s, or the length
LineEnd(data, s) ==
    Min({e \in s..Len(data) : e = Len(data) \/ data[e + 1] = NL})

LineAt(data, s) == SubSeq(data, s + 1, LineEnd(data, s))

\* the line starts of the label lines ":" label
LabelStarts(data, label) ==
    {s \in LineStarts(data) : LineAt(data, s) = <<":">> \o label}

HasLabel(data, label) == LabelStarts(data, label) # {}

\* just past the first label line ":" label
AfterFirstLabel(data, label) == LineEnd(data, Min(LabelStarts(data, label))) + 1

\* the last step was goto <label>, well formed, with a script running
GotoInScript ==
    /\ event.cmd = "goto"
    /\ Len(event.argv) = 2
    /\ event.pre_script # NULL

(***************************************************************************)
(* C1: a goto to a label the running script declares returns success, and  *)
(* the next line the executor fetches is the line just after the first     *)
(* label line of that name - before or after the goto line.                *)
(***************************************************************************)
C1_GotoExistingLabel ==
    /\ ( GotoInScript /\ HasLabel(image_data[event.pre_script], event.argv[2]) )
       => /\ event.rc = 0
          /\ script = event.pre_script
          /\ LET d == image_data[script]
                 t == AfterFirstLabel(d, event.argv[2])
             IN  t < Len(d) => ( script_offset = t /\ Top.pc = "fetch" )
    /\ ( event.op = "fetch" /\ Top.kind = "goto_ok" )
       => LET d == image_data[Top.image]
              t == AfterFirstLabel(d, Top.label)
          IN  /\ Top.line_start = t
              /\ Top.cmdbuf = LineAt(d, t)

\* a backward jump: the line fetched after the goto starts before the goto line
C1_Witness ==
    /\ event.op = "fetch"
    /\ Top.kind = "goto_ok"
    /\ Top.line_start < Top.prev_start

\* a forward jump over at least one line
C1_WitnessForward ==
    /\ event.op = "fetch"
    /\ Top.kind = "goto_ok"
    /\ Top.line_start > LineEnd(image_data[Top.image], Top.prev_start) + 1

(***************************************************************************)
(* C2: a goto to a label the running script does not declare returns       *)
(* -ENOENT and leaves (script, script_offset) as they were at the call.    *)
(***************************************************************************)
C2_GotoMissingLabel ==
    ( GotoInScript /\ ~ HasLabel(image_data[event.pre_script], event.argv[2]) )
    => /\ event.rc = -ENOENT
       /\ script = event.pre_script
       /\ script_offset = event.pre_offset

C2_Witness ==
    /\ GotoInScript
    /\ ~ HasLabel(image_data[event.pre_script], event.argv[2])
    /\ event.searched
    /\ event.pre_offset > 0

(***************************************************************************)
(* C3: a goto <label> with no script running returns -ENOTTY without       *)
(* searching, and script, script_offset and the registry are unchanged.    *)
(***************************************************************************)
C3_GotoOutsideScript ==
    ( event.cmd = "goto" /\ Len(event.argv) = 2 /\ event.pre_script = NULL )
    => /\ event.rc = -ENOTTY
       /\ ~ event.searched
       /\ script = NULL
       /\ script_offset = event.pre_offset
       /\ registered = event.pre_registered

C3_Witness ==
    /\ event.cmd = "goto"
    /\ Len(event.argv) = 2
    /\ event.pre_script = NULL
    /\ event.rc = -ENOTTY

(***************************************************************************)
(* C4: when a script_exec entered from line k of script A returns, the     *)
(* cursor is A at the offset just past line k, the value it had on entry;  *)
(* and the next line A fetches is the line after line k.                   *)
(***************************************************************************)
C4_NestedReturnRestoresCursor ==
    /\ ( event.op = "return" /\ stack # <<>> )
       => /\ script = Top.image
          /\ event.entry_script = Top.image
          /\ script_offset = event.entry_offset
          /\ script_offset = LineEnd(image_data[Top.image], Top.line_start) + 1
    /\ ( event.op = "fetch" /\ Top.kind = "exec" )
       => /\ Top.line_start = LineEnd(image_data[Top.image], Top.prev_start) + 1
          /\ Top.cmdbuf = LineAt(image_data[Top.image], Top.line_start)

\* the same image ran nested in itself, failed, and has returned
C4_Witness ==
    /\ event.op = "return"
    /\ stack # <<>>
    /\ event.image = Top.image
    /\ event.rc # 0

\* another image ran nested, jumped, succeeded, and the outer walk goes on
C4_WitnessOther ==
    /\ event.op = "return"
    /\ stack # <<>>
    /\ event.image # Top.image
    /\ event.rc = 0
    /\ Top.pc = "fetch"

(***************************************************************************)
(* C5: after a line of a script_exec invocation returned non-success no    *)
(* further line of that invocation is fetched, and script_exec returns     *)
(* that status; if no line failed it returns 0.                            *)
(***************************************************************************)
C5_FailFast ==
    /\ \A i \in DOMAIN stack :
          stack[i].first_fail # 0 => ( stack[i].pc = "ret" /\ stack[i].rc = stack[i].first_fail )
    /\ event.op = "return" => event.rc = event.first_fail

\* a line failed with status 1 while lines remained, and script_exec returned 1
C5_Witness ==
    /\ event.op = "return"
    /\ event.rc = 1
    /\ event.first_fail = 1
    /\ event.pre_offset < Len(image_data[event.image])

(***************************************************************************)
(* C6: whenever script_exec returns, the cursor is the one saved on entry  *)
(* and the image is registered again.                                      *)
(***************************************************************************)
C6_ReturnRestoresAndRegisters ==
    event.op = "return"
    => /\ script = event.entry_script
       /\ script_offset = event.entry_offset
       /\ event.image \in registered

\* a return after a goto that failed, into an outer script
C6_Witness ==
    /\ event.op = "return"
    /\ event.rc = -ENOENT
    /\ stack # <<>>
    /\ script_offset # 0

(***************************************************************************)
(* C7: an image is not registered while a script_exec of it is in          *)
(* progress, at any nesting depth.                                         *)
(***************************************************************************)
C7_UnregisteredWhileRunning ==
    \A i \in DOMAIN stack : stack[i].image \notin registered

(***************************************************************************)
(* C8: a line that starts with ':' is not handed to system(), yields       *)
(* success, and leaves the cursor and the registry as the walker left them.*)
(***************************************************************************)
C8_LabelLineInert ==
    ( event.op = "visit" /\ event.line # <<>> /\ event.line[1] = ":" )
    => /\ ~ event.dispatched
       /\ event.rc = 0
       /\ script = event.pre_script
       /\ script_offset = event.pre_offset
       /\ registered = event.pre_registered
       /\ Top.rc = 0

\* the bare ":" line was visited
C8_Witness ==
    /\ event.op = "visit"
    /\ event.line = <<":">>
    /\ ~ event.dispatched

(***************************************************************************)
(* C9: script_load accepts a blob iff it has at least 7 bytes, the first 6 *)
(* are "#!ipxe" or "#!gpxe", and the 7th is whitespace; otherwise it       *)
(* rejects it and does not tag it.  "#!ipxe" alone is never accepted.      *)
(***************************************************************************)
Whitespace == {" ", "\t", "\n", "\f", "\r"}

IsScriptBlob(data) ==
    /\ Len(data) >= 7
    /\ SubSeq(data, 1, 6) \in {ipxe_magic, gpxe_magic}
    /\ data[7] \in Whitespace

C9_Recognizer ==
    /\ event.op = "load"
       => /\ (event.rc = 0) <=> IsScriptBlob(image_data[event.image])
          /\ (image_type[event.image] = "script") <=> IsScriptBlob(image_data[event.image])
    /\ \A i \in Images : image_data[i] = ipxe_magic => image_type[i] # "script"

\* the 6-byte blob "#!ipxe" was offered and rejected
C9_Witness ==
    /\ event.op = "load"
    /\ image_data[event.image] = ipxe_magic
    /\ event.rc # 0

C9_WitnessAccept ==
    /\ event.op = "load"
    /\ Len(image_data[event.image]) = 7
    /\ event.rc = 0

(***************************************************************************)
(* C10: one script_exec invocation fetches lines at strictly increasing    *)
(* offsets.                                                                *)
(***************************************************************************)
\* C10, as claimed: every fetched line starts after the previously fetched one
C10_StrictlyIncreasing ==
    \A i \in DOMAIN stack :
        stack[i].prev_start >= 0 => stack[i].line_start > stack[i].prev_start

\* C10, amended: every fetched line starts after the previously fetched one,
\* unless the previously fetched line was a goto that succeeded, and then it
\* starts just past the first matching label line
C10_IncreasingExceptGoto ==
    ( event.op = "fetch" /\ Top.prev_start >= 0 )
    => IF Top.kind = "goto_ok"
       THEN Top.line_start = AfterFirstLabel(image_data[Top.image], Top.label)
       ELSE Top.line_start > Top.prev_start

\* the line fetched after a nested script_exec that returned success
C10_Witness ==
    /\ event.op = "fetch"
    /\ Top.prev_start >= 0
    /\ Top.kind = "exec"
    /\ Top.line_start > Top.prev_start

(***************************************************************************)
(* C11: running "#!ipxe\n:start\necho hi\ngoto start\n" never ends: its    *)
(* script_exec never reaches its exit, every "goto start" succeeds and     *)
(* leaves script_offset at the line after ":start" (offset 14, "echo hi"), *)
(* and "echo hi" is handed to system() again and again.                    *)
(***************************************************************************)
LoopInProgress == \E i \in DOMAIN stack : stack[i].image = "A"

EchoHiDispatched ==
    /\ event.op = "visit"
    /\ event.pre_script = "A"
    /\ event.line = echo_hi
    /\ event.dispatched
    /\ event.rc = 0

C11_LoopForever ==
    /\ [](\A i \in DOMAIN stack : stack[i].image = "A" => stack[i].pc # "ret")
    /\ [](event.op = "return" => event.image # "A")
    /\ []( ( event.cmd = "goto" /\ event.pre_script = "A" )
           => /\ event.rc = 0
              /\ script = "A"
              /\ script_offset = 14
              /\ script_offset = AfterFirstLabel(LoopScript, start_label)
              /\ LineAt(LoopScript, script_offset) = echo_hi )
    /\ ( LoopInProgress ~> EchoHiDispatched )

\* "echo hi" fetched again after a "goto start"
C11_Witness ==
    /\ event.op = "fetch"
    /\ Top.image = "A"
    /\ Top.kind = "goto_ok"
    /\ event.line = echo_hi
    /\ Top.line_start = 14

(***************************************************************************)
(* C12: when the running script holds the label line of a goto more than   *)
(* once, the goto succeeds and leaves script_offset just past the earliest *)
(* of them, never just past a later one; the next line fetched is the line *)
(* after the earliest.                                                     *)
(***************************************************************************)
DuplicateLabel(data, label) == Cardinality(LabelStarts(data, label)) >= 2

C12_EarliestDuplicate ==
    /\ ( GotoInScript /\ DuplicateLabel(image_data[event.pre_script], event.argv[2]) )
       => LET d  == image_data[event.pre_script]
              ls == LabelStarts(d, event.argv[2])
          IN  /\ event.rc = 0
              /\ script_offset = LineEnd(d, Min(ls)) + 1
              /\ \A s \in ls \ {Min(ls)} : script_offset # LineEnd(d, s) + 1
    /\ ( event.op = "fetch" /\ Top.kind = "goto_ok"
         /\ DuplicateLabel(image_data[Top.image], Top.label) )
       => LET d  == image_data[Top.image]
              ls == LabelStarts(d, Top.label)
          IN  /\ Top.line_start = LineEnd(d, Min(ls)) + 1
              /\ \A s \in ls \ {Min(ls)} : Top.line_start # LineEnd(d, s) + 1

\* the goto line lies between two label lines of its name: one behind it, one
\* ahead of it
C12_Witness ==
    /\ GotoInScript
    /\ event.rc = 0
    /\ LET ls == LabelStarts(image_data[event.pre_script], event.argv[2])
       IN  /\ \E s \in ls : s < event.pre_offset
           /\ \E s \in ls : s >= event.pre_offset

(***************************************************************************)
(* C13: after a line is extracted, script_offset is one past the line's    *)
(* terminator: one past the '\n', or - for a last line with no '\n' - one  *)
(* past the end of the script; so with a script running, script_offset is  *)
(* at most the script's length plus one.                                   *)
(***************************************************************************)
C13_CursorOnePastTerminator ==
    /\ event.op = "fetch"
       => LET d == image_data[script]
              e == LineEnd(d, Top.line_start)
          IN  /\ Top.cmdbuf = LineAt(d, Top.line_start)
              /\ script_offset = e + 1
              /\ e < Len(d) => d[script_offset] = NL
              /\ e = Len(d) => script_offset = Len(d) + 1
    /\ script # NULL => script_offset <= Len(image_data[script]) + 1

\* the claim as stated: a last line with no '\n' leaves script_offset at the
\* script's length, and script_offset never exceeds the length
C13_CursorWithinScript ==
    /\ event.op = "fetch"
       => LET d == image_data[script]
              e == LineEnd(d, Top.line_start)
          IN  script_offset = IF e < Len(d) THEN e + 1 ELSE Len(d)
    /\ script # NULL => script_offset <= Len(image_data[script])

\* a last line with no '\n' has been extracted
C13_Witness ==
    /\ event.op = "fetch"
    /\ LineEnd(image_data[script], Top.line_start) = Len(image_data[script])
    /\ script_offset = Len(image_data[script]) + 1

C14_WitnessSearch ==
    /\ event.op = "search"
    /\ image_data[event.image] = <<>>
    /\ event.visits = 1

(***************************************************************************)
(* C15: as long as every command of a running script has succeeded and no  *)
(* goto has jumped, the lines it has visited are the first segments of the *)
(* script split at every '\n', each visited once and in file order, and    *)
(* the segments dispatched to the command layer are those among them that  *)
(* do not start with ':'; when the script returns success it has visited   *)
(* every segment - an unterminated last one included, and no empty line    *)
(* after a final '\n'.                                                     *)
(***************************************************************************)
\* the segments of data that start before offset s / that start at s or before
SegmentsBefore(data, s) == {t \in LineStarts(data) : t < s}
SegmentsUpTo(data, s) == {t \in LineStarts(data) : t <= s}

\* those of a set of segments that are command lines
CommandSegments(data, S) ==
    {t \in S : LineAt(data, t) = <<>> \/ LineAt(data, t)[1] # ":"}

C15_VisitsAreSegments ==
    /\ \A i \in DOMAIN stack :
          LET f == stack[i]
              d == image_data[f.image]
          IN  ( ~ f.jumped /\ f.first_fail = 0 )
              => /\ f.line_start = -1 => ( f.visits = 0 /\ f.dispatches = 0 )
                 /\ f.line_start # -1
                    => /\ f.line_start \in LineStarts(d)
                       /\ f.cmdbuf = LineAt(d, f.line_start)
                       /\ LET S == SegmentsBefore(d, f.line_start)
                          IN  IF S = {}
                              THEN f.prev_start = -1
                              ELSE /\ f.prev_start \in S
                                   /\ \A t \in S : t <= f.prev_start
                       /\ f.pc \in {"visit", "call"}
                          => LET S == SegmentsBefore(d, f.line_start)
                             IN  /\ f.visits = Cardinality(S)
                                 /\ f.dispatches = Cardinality(CommandSegments(d, S))
                       /\ f.pc \in {"fetch", "ret"}
                          => LET S == SegmentsUpTo(d, f.line_start)
                             IN  /\ f.visits = Cardinality(S)
                                 /\ f.dispatches = Cardinality(CommandSegments(d, S))
                       /\ f.pc = "fetch" => SegmentsUpTo(d, f.line_start) # LineStarts(d)
                       /\ f.pc = "ret" => SegmentsUpTo(d, f.line_start) = LineStarts(d)
    /\ ( event.op = "return" /\ event.rc = 0 /\ ~ event.jumped )
       => LET d == image_data[event.image]
          IN  /\ event.visits = Cardinality(LineStarts(d))
              /\ event.dispatches = Cardinality(CommandSegments(d, LineStarts(d)))
              /\ event.last_start \in LineStarts(d)
              /\ \A t \in LineStarts(d) : t <= event.last_start

\* a script of four lines, one of them a label and one blank, with no '\n' at
\* its end, has returned success
C15_Witness ==
    /\ event.op = "return" /\ event.rc = 0 /\ ~ event.jumped
    /\ LET d == image_data[event.image]
       IN  /\ d[Len(d)] # NL
           /\ event.visits = 4
           /\ event.dispatches = 3
           /\ \E t \in LineStarts(d) : LineAt(d, t) = <<>>

\* a script ending in '\n' has returned success
C15_WitnessTrailing ==
    /\ event.op = "return" /\ event.rc = 0 /\ ~ event.jumped
    /\ LET d == image_data[event.image]
       IN  /\ d[Len(d)] = NL
           /\ event.visits = 4
           /\ event.last_start < Len(d) - 1

(***************************************************************************)
(* C16: every extraction moves script_offset forward by at least 1; a walk *)
(* by script_exec and a label search each call the line processor at least *)
(* once and at most once per byte of the range; and every script_exec that *)
(* was entered returns.                                                    *)
(***************************************************************************)
\* the most lines a walk of data can visit
MaxVisits(data) == IF Len(data) = 0 THEN 1 ELSE Len(data)

C16_WalksTerminate ==
    /\ []( event.op = "fetch" => script_offset >= event.pre_offset + 1 )
    /\ []( \A i \in DOMAIN stack :
              /\ stack[i].visits <= MaxVisits(image_data[stack[i].image])
              /\ stack[i].pc = "ret" => stack[i].visits >= 1 )
    /\ []( event.op = "return"
           => ( event.visits >= 1 /\ event.visits <= MaxVisits(image_data[event.image]) ) )
    /\ []( event.op = "search"
           => /\ event.visits >= 1
              /\ event.visits <= MaxVisits(image_data[event.image])
              /\ event.offset >= event.visits )
    /\ ( stack # <<>> ) ~> ( stack = <<>> )

\* a walk that took as many lines as the range has bytes has returned
C16_Witness ==
    /\ event.op = "return"
    /\ stack = <<>>
    /\ Len(image_data[event.image]) >= 2
    /\ event.visits = Len(image_data[event.image])

\* a label search that went through the whole range, a line per byte
C16_WitnessSearch ==
    /\ event.op = "search"
    /\ event.rc = -ENOENT
    /\ Len(image_data[event.image]) >= 2
    /\ event.visits = Len(image_data[event.image])

(***************************************************************************)
(* C17: the running script is the image of the innermost script_exec in    *)
(* progress, and there is none exactly when no script_exec is in progress; *)
(* when the outermost script_exec returns, script and script_offset are    *)
(* what they were before it was called, with no script running.            *)
(***************************************************************************)
C17_ScriptIsInnermost ==
    /\ script = IF stack = <<>> THEN NULL ELSE Top.image
    /\ ( script = NULL ) <=> ( stack = <<>> )
    /\ \A i \in DOMAIN stack :
          stack[i].saved_script = IF i = 1 THEN NULL ELSE stack[i - 1].image
    /\ ( event.op = "return" /\ stack = <<>> )
       => /\ event.entry_script = NULL
          /\ script = NULL
          /\ script_offset = event.entry_offset

\* a script_exec of one image in progress inside a script_exec of the other
C17_Witness ==
    /\ Len(stack) = 2
    /\ stack[1].image # stack[2].image
    /\ script = stack[2].image
    /\ stack[2].pc = "visit"

\* the outermost script_exec has returned after a nested one ran inside it
C17_WitnessReturn ==
    /\ event.op = "return"
    /\ stack = <<>>
    /\ event.kind = "exec"
    /\ script = NULL

(***************************************************************************)
(* C18: a goto, whatever its outcome, leaves the running script and the    *)
(* registry as they were and neither enters nor leaves a script_exec; it   *)
(* walks the running script only: called from script B running inside      *)
(* script A with a label that only A declares, it returns -ENOENT, leaves  *)
(* script_offset alone, and the cursor B's script_exec saved for A stays   *)
(* just past A's calling line.                                             *)
(***************************************************************************)
\* the last step was a goto in a script running inside a script of another
\* image
GotoInNested ==
    /\ GotoInScript
    /\ Len(stack) = 2
    /\ stack[1].image # stack[2].image

C18_GotoStaysInScript ==
    /\ event.cmd = "goto"
       => /\ script = event.pre_script
          /\ registered = event.pre_registered
          /\ Len(stack) = event.pre_depth
          /\ \/ script_offset = event.pre_offset
             \/ /\ event.rc = 0
                /\ script_offset = AfterFirstLabel(image_data[script], event.argv[2])
    /\ GotoInNested
       => LET dA == image_data[stack[1].image]
              dB == image_data[stack[2].image]
          IN  /\ stack[1].pc = "call"
              /\ stack[2].saved_script = stack[1].image
              /\ stack[2].saved_offset = LineEnd(dA, stack[1].line_start) + 1
              /\ event.rc = IF HasLabel(dB, event.argv[2]) THEN 0 ELSE -ENOENT
              /\ ~ HasLabel(dB, event.argv[2])
                 => ( script_offset = event.pre_offset /\ stack[2].pc = "ret" )

\* script B, running inside script A, has called goto with a label that only
\* A declares
C18_Witness ==
    /\ GotoInNested
    /\ HasLabel(image_data[stack[1].image], event.argv[2])
    /\ ~ HasLabel(image_data[stack[2].image], event.argv[2])
    /\ event.rc = -ENOENT

(***************************************************************************)
(* C19: a goto that succeeds with its label line as the last line of the   *)
(* script - followed by a final '\n' or by nothing - ends the walk: no     *)
(* further line is extracted, and script_exec returns 0.                   *)
(***************************************************************************)
\* the first label line ":" label of data is the last line of data
LabelIsLastLine(data, label) ==
    /\ HasLabel(data, label)
    /\ AfterFirstLabel(data, label) >= Len(data)

C19_GotoLastLineEnds ==
    /\ ( GotoInScript /\ LabelIsLastLine(image_data[event.pre_script], event.argv[2]) )
       => /\ event.rc = 0
          /\ Top.image = event.pre_script
          /\ Top.kind = "goto_ok"
          /\ Top.pc = "ret"
          /\ Top.rc = 0
    /\ ( event.op = "fetch" /\ Top.kind = "goto_ok" )
       => ~ LabelIsLastLine(image_data[Top.image], Top.label)
    /\ ( event.op = "return" /\ event.kind = "goto_ok" )
       => /\ event.rc = 0
          /\ event.jumped
          /\ SubSeq(LineAt(image_data[event.image], event.last_start), 1, 4) = goto_name

\* the label line is the last line and has no '\n' after it
C19_Witness ==
    /\ GotoInScript
    /\ event.rc = 0
    /\ script_offset = Len(image_data[script]) + 1
    /\ Top.pc = "ret"

\* the label line is the last line and a '\n' ends the script
C19_WitnessTrailing ==
    /\ GotoInScript
    /\ event.rc = 0
    /\ script_offset = Len(image_data[script])
    /\ Top.pc = "ret"

\* script_exec has returned 0 straight after such a goto
C19_WitnessReturn ==
    /\ event.op = "return"
    /\ event.kind = "goto_ok"
    /\ event.rc = 0
    /\ stack = <<>>

====
